---- MODULE Spec2Model ----
(***************************************************************************)
(* BlePeripheral: a BLE peripheral endpoint with one GATT characteristic.  *)
(* The queue-based variant (src/bluetooth_low_energy) shares two VecDeque  *)
(* queues, a Notify and a boolean flag between the engine task and the     *)
(* callers of the public API.  The engine task is modelled between its     *)
(* await points; the BLE stack (control events, the bound reader and       *)
(* writer streams) is the environment.                                     *)
(***************************************************************************)
EXTENDS Integers, Sequences, FiniteSets, TLC

\* ------------------------------------------------------------- bounds
MaxSend == 3        \* send_message calls
MaxReaders == 3     \* write-control-events (each binds a new reader)
MaxWriters == 2     \* notify-subscribed events (each binds a new writer)
MaxStreamLen == 2   \* bytes a reader's stream yields before it ends
MaxStarts == 2      \* start_engine calls
NumCallers == 2     \* tasks that call receive_message
MaxCalls == 3       \* receive_message calls in total
Mtu == 2            \* bytes one read of the channel variant can take
MaxMsgLen == 3      \* code points of a string, bytes of a byte vector
MaxOps == 3         \* calls made on one BleMessage, its construction included

Callers == 1..NumCallers

VARIABLES
    \* BlePeripheral (the handle)
    ble_thread,        \* Option<JoinHandle>: "None" | "Some"
    app_handler,       \* Option<ApplicationHandle> is Some
    adv_handler,       \* Option<AdvertisementHandle> is Some
    send_queue,        \* Arc<RwLock<VecDeque<BleMessage>>>
    receive_queue,     \* Arc<RwLock<VecDeque<BleMessage>>>
    subscribed,        \* Arc<RwLock<bool>>
    notify_permit,     \* receive_notify: a stored permit
    waiters,           \* receive_notify: the registered Notified futures, oldest first
    \* the engine task (locals of the spawned future)
    engine_pc,         \* "none" | "select" | "sub" | "writing" | "unsub" | "pushing" | "exited"
    receive_buf,       \* Vec<u8>
    receiver_opt,      \* Option<CharacteristicReader>
    notifier_opt,      \* Option<CharacteristicWriter>
    num_read,          \* bytes counted by the read_to_end future in flight
    message,           \* the popped outbound message being written
    received_message,  \* the inbound message about to be pushed
    \* the callers of receive_message
    caller_pc,         \* "idle" | "waiting" | "notified" | "popN" | "popT" | "done"
    ret,               \* the last message receive_message returned to each caller
    \* the environment and what it has observed
    starts,            \* start_engine calls so far
    readers,           \* readers handed out so far
    writers,           \* writers handed out so far
    sent,              \* the messages passed to send_message, in call order
    writes,            \* the write_all calls that succeeded: [writer, bytes], in order
    failed,            \* the messages whose write_all failed
    abandoned,         \* the messages the engine task held when it was aborted
    pushed,            \* the messages appended to the inbound queue or channel
    popped,            \* the pops that returned a message: [caller, msg, qlen], in order
    eofs,              \* the streams read to end-of-data after a byte or more: [id, len]
    err_streams,       \* the readers whose stream ends in an error
    errored,           \* the readers whose read reported an error
    superseded,        \* the readers a write event replaced in the middle of their stream
    out_mark,          \* Len(sent) when stop_engine last stopped an engine task
    in_mark,           \* Len(pushed) when stop_engine last stopped an engine task
    ended,             \* the control-event source of the engine task has ended
    msg_input,         \* the string or byte vector a BleMessage is made from
    msg_self,          \* the BleMessage the methods are called on
    msg_ops,           \* the calls made on it so far
    msg_out            \* what the last call returned

vars == <<ble_thread, app_handler, adv_handler, send_queue, receive_queue,
          subscribed, notify_permit, waiters, engine_pc, receive_buf,
          receiver_opt, notifier_opt, num_read, message, received_message,
          caller_pc, ret, starts, readers, writers, sent, writes, failed,
          abandoned, pushed, popped, eofs, err_streams, errored, superseded,
          out_mark, in_mark, ended, msg_input, msg_self, msg_ops, msg_out>>

None == [none |-> TRUE]

\* ------------------------------------------------------------- BleMessage
Text(s) == [kind |-> "Text", val |-> s]
Raw(v) == [kind |-> "Raw", val |-> v]

\* One code point as its UTF-8 bytes (str::as_bytes), for code points below 0x10000.
Utf8Char(c) ==
    IF c < 128 THEN <<c>>
    ELSE IF c < 2048 THEN <<192 + (c \div 64), 128 + (c % 64)>>
    ELSE <<224 + (c \div 4096), 128 + ((c \div 64) % 64), 128 + (c % 64)>>

RECURSIVE Utf8(_)
Utf8(s) == IF s = <<>> THEN <<>> ELSE Utf8Char(Head(s)) \o Utf8(Tail(s))

take_bytes(m) == IF m.kind = "Text" THEN Utf8(m.val) ELSE m.val

\* An extend that would put the new bytes in place of the old ones.
extend_raw_bytes_replaces(m, bytes) ==
    IF m.kind = "Raw" THEN [ok |-> TRUE, msg |-> Raw(bytes)]
    ELSE [ok |-> FALSE, msg |-> m]

extend_raw_bytes(m, bytes) ==
    IF m.kind = "Raw" THEN [ok |-> TRUE, msg |-> Raw(m.val \o bytes)]
    ELSE [ok |-> FALSE, msg |-> m]

\* U+FFFD, which from_utf8_lossy puts in place of each invalid sequence.
ReplacementChar == 65533

\* An ASCII-only decoder: every byte above 0x7F becomes U+FFFD.
RECURSIVE from_utf8_lossy_ascii(_)
from_utf8_lossy_ascii(b) ==
    IF b = <<>> THEN <<>>
    ELSE <<IF Head(b) < 128 THEN Head(b) ELSE ReplacementChar>>
             \o from_utf8_lossy_ascii(Tail(b))

\* String::from_utf8_lossy, for bytes outside 0xF0..0xF4 (sequences of one, two
\* and three bytes): a valid sequence is its code point, and the longest prefix
\* of a valid sequence that an invalid byte cuts short is one U+FFFD.
RECURSIVE from_utf8_lossy(_)
from_utf8_lossy(b) ==
    IF b = <<>> THEN <<>>
    ELSE LET h == Head(b)
             n == Len(b)
             lo == IF h = 224 THEN 160 ELSE 128
             hi == IF h = 237 THEN 159 ELSE 191
         IN IF h < 128 THEN <<h>> \o from_utf8_lossy(Tail(b))
            ELSE IF h \in 194..223 /\ n >= 2 /\ b[2] \in 128..191
            THEN <<(h - 192) * 64 + (b[2] - 128)>> \o from_utf8_lossy(SubSeq(b, 3, n))
            ELSE IF h \in 224..239 /\ n >= 2 /\ b[2] \in lo..hi
            THEN IF n >= 3 /\ b[3] \in 128..191
                 THEN <<(h - 224) * 4096 + (b[2] - 128) * 64 + (b[3] - 128)>>
                          \o from_utf8_lossy(SubSeq(b, 4, n))
                 ELSE <<ReplacementChar>> \o from_utf8_lossy(SubSeq(b, 3, n))
            ELSE <<ReplacementChar>> \o from_utf8_lossy(Tail(b))

convert_to_text(m) ==
    IF m.kind = "Raw" THEN [ok |-> TRUE, msg |-> Text(from_utf8_lossy(m.val))]
    ELSE [ok |-> FALSE, msg |-> m]

\* From<&str>, From<String> and From<Vec<u8>>
From_str(s) == Text(s)
From_bytes(v) == Raw(v)

\* The n-th message a caller passes to send_message: "A".."C" followed by a
\* two-byte character, or three raw bytes.
MsgChoices(n) == {Text(<<64 + n, 232>>), Raw(<<n, n + 1, n + 2>>)}

\* The i-th byte of reader r's stream.
StreamByte(r, i) == <<r, i>>
StreamBytes(r, from, to) == [i \in 1..(to - from + 1) |-> StreamByte(r, from + i - 1)]

Range(q) == {q[i] : i \in 1..Len(q)}

\* ------------------------------------------------------------- new
NewPeripheral ==
    /\ ble_thread = "None"
    /\ app_handler = FALSE
    /\ adv_handler = FALSE
    /\ send_queue = <<>>
    /\ receive_queue = <<>>
    /\ subscribed = FALSE
    /\ notify_permit = FALSE
    /\ waiters = <<>>
    /\ engine_pc = "none"
    /\ receive_buf = <<>>
    /\ receiver_opt = None
    /\ notifier_opt = None
    /\ num_read = 0
    /\ message = None
    /\ received_message = None
    /\ caller_pc = [c \in Callers |-> "idle"]
    /\ ret = [c \in Callers |-> None]
    /\ starts = 0
    /\ readers = 0
    /\ writers = 0
    /\ sent = <<>>
    /\ writes = <<>>
    /\ failed = <<>>
    /\ abandoned = <<>>
    /\ pushed = <<>>
    /\ popped = <<>>
    /\ eofs = <<>>
    /\ err_streams = {}
    /\ errored = {}
    /\ superseded = {}
    /\ out_mark = 0
    /\ in_mark = 0
    /\ ended = FALSE

\* No BleMessage is under examination.
NoMessage ==
    /\ msg_input = None
    /\ msg_self = None
    /\ msg_ops = <<>>
    /\ msg_out = None

Init == NewPeripheral /\ NoMessage

handle_vars == <<ble_thread, app_handler, adv_handler>>
caller_vars == <<caller_pc, ret, popped>>
out_vars == <<send_queue, sent, writes, failed, message, notifier_opt, writers>>
in_vars == <<receive_buf, receiver_opt, num_read, received_message, readers,
             eofs, err_streams, errored, superseded>>
mark_vars == <<out_mark, in_mark, ended>>
msg_vars == <<msg_input, msg_self, msg_ops, msg_out>>
wake_vars == <<notify_permit, waiters>>

\* The locals of the engine task are dropped with the task.
DropEngineLocals ==
    /\ receive_buf' = <<>>
    /\ receiver_opt' = None
    /\ notifier_opt' = None
    /\ num_read' = 0
    /\ message' = None
    /\ received_message' = None

\* ------------------------------------------------------------- start_engine
\* A start that would leave the subscription flag as the previous run left it.
StartEngine_keeps_flag ==
    /\ ble_thread = "None"
    /\ starts < MaxStarts
    /\ starts' = starts + 1
    /\ adv_handler' = TRUE
    /\ app_handler' = TRUE
    /\ DropEngineLocals
    /\ engine_pc' = "select"
    /\ ble_thread' = "Some"
    /\ UNCHANGED <<send_queue, receive_queue, subscribed, wake_vars, caller_vars,
                   readers, writers, sent, writes, failed, abandoned, pushed,
                   eofs, err_streams, errored, superseded, mark_vars, msg_vars>>

\* The caller starts the engine only on a handle that holds no engine task.
StartEngine ==
    /\ ble_thread = "None"
    /\ starts < MaxStarts
    /\ starts' = starts + 1
    /\ adv_handler' = TRUE
    /\ app_handler' = TRUE
    /\ subscribed' = FALSE
    /\ DropEngineLocals
    /\ engine_pc' = "select"
    /\ ble_thread' = "Some"
    /\ UNCHANGED <<send_queue, receive_queue, wake_vars, caller_vars, readers,
                   writers, sent, writes, failed, abandoned, pushed, eofs,
                   err_streams, errored, superseded, mark_vars, msg_vars>>

\* A registration step fails and `?` returns early: before the advertisement
\* ("session") or after it, at serve_gatt_application ("serve").
StartEngineFails(stage) ==
    /\ ble_thread = "None"
    /\ starts < MaxStarts
    /\ adv_handler' = (adv_handler \/ stage = "serve")
    /\ UNCHANGED <<ble_thread, app_handler, send_queue, receive_queue, subscribed,
                   wake_vars, engine_pc, in_vars, message, notifier_opt, writers,
                   caller_vars, starts, sent, writes, failed, abandoned, pushed,
                   mark_vars, msg_vars>>

\* ------------------------------------------------------------- stop_engine
\* A stop that would also empty the two queues.
StopEngine_clears_queues ==
    /\ ble_thread' = "None"
    /\ app_handler' = FALSE
    /\ adv_handler' = FALSE
    /\ IF ble_thread = "Some"
       THEN /\ engine_pc' = "none"
            /\ DropEngineLocals
            /\ abandoned' = IF engine_pc = "writing" THEN Append(abandoned, message)
                            ELSE IF engine_pc = "pushing"
                                 THEN Append(abandoned, received_message)
                                 ELSE abandoned
       ELSE UNCHANGED <<engine_pc, receive_buf, receiver_opt, notifier_opt,
                        num_read, message, received_message, abandoned>>
    /\ out_mark' = IF ble_thread = "Some" THEN Len(sent) ELSE out_mark
    /\ in_mark' = IF ble_thread = "Some" THEN Len(pushed) ELSE in_mark
    /\ ended' = FALSE
    /\ send_queue' = <<>>
    /\ receive_queue' = <<>>
    /\ UNCHANGED <<subscribed, wake_vars, caller_vars,
                   starts, readers, writers, sent, writes, failed, pushed,
                   eofs, err_streams, errored, superseded, msg_vars>>

\* A stop that would drop the task's handle without aborting the task.
StopEngine_detaches ==
    /\ ble_thread' = "None"
    /\ app_handler' = FALSE
    /\ adv_handler' = FALSE
    /\ out_mark' = IF ble_thread = "Some" THEN Len(sent) ELSE out_mark
    /\ in_mark' = IF ble_thread = "Some" THEN Len(pushed) ELSE in_mark
    /\ UNCHANGED <<send_queue, receive_queue, subscribed, wake_vars, engine_pc,
                   in_vars, out_vars, caller_vars, starts, abandoned, pushed,
                   ended, msg_vars>>

StopEngine ==
    /\ ble_thread' = "None"
    /\ app_handler' = FALSE
    /\ adv_handler' = FALSE
    /\ IF ble_thread = "Some"
       THEN /\ engine_pc' = "none"
            /\ DropEngineLocals
            /\ abandoned' = IF engine_pc = "writing" THEN Append(abandoned, message)
                            ELSE IF engine_pc = "pushing"
                                 THEN Append(abandoned, received_message)
                                 ELSE abandoned
       ELSE UNCHANGED <<engine_pc, receive_buf, receiver_opt, notifier_opt,
                        num_read, message, received_message, abandoned>>
    /\ out_mark' = IF ble_thread = "Some" THEN Len(sent) ELSE out_mark
    /\ in_mark' = IF ble_thread = "Some" THEN Len(pushed) ELSE in_mark
    /\ ended' = FALSE
    /\ UNCHANGED <<send_queue, receive_queue, subscribed, wake_vars, caller_vars,
                   starts, readers, writers, sent, writes, failed, pushed,
                   eofs, err_streams, errored, superseded, msg_vars>>

\* ------------------------------------------------------------- send_message
SendMessage(m) ==
    /\ Len(sent) < MaxSend
    /\ send_queue' = Append(send_queue, m)
    /\ sent' = Append(sent, m)
    /\ UNCHANGED <<handle_vars, receive_queue, subscribed, wake_vars, engine_pc,
                   in_vars, message, notifier_opt, writers, caller_vars, starts,
                   writes, failed, abandoned, pushed, mark_vars, msg_vars>>

\* ------------------------------------------------------------- is_subscribed
is_subscribed == subscribed

\* ------------------------------------------------------------- engine: control events
\* A write event that would bind the new reader and keep the buffer.
CtrlWrite_keeps_buffer(len, end) ==
    /\ engine_pc = "select"
    /\ readers < MaxReaders
    /\ readers' = readers + 1
    /\ superseded' = IF receiver_opt # None /\ receiver_opt.pos >= 1 /\ ~receiver_opt.eof
                     THEN superseded \cup {receiver_opt.id} ELSE superseded
    /\ err_streams' = IF end = "err" THEN err_streams \cup {readers + 1} ELSE err_streams
    /\ receive_buf' = receive_buf
    /\ receiver_opt' = [id |-> readers + 1, len |-> len, end |-> end, pos |-> 0,
                        eof |-> FALSE]
    /\ num_read' = 0
    /\ UNCHANGED <<handle_vars, send_queue, receive_queue, subscribed, wake_vars,
                   engine_pc, notifier_opt, message, received_message,
                   caller_vars, starts, writers, sent, writes, failed, abandoned,
                   pushed, eofs, errored, mark_vars, msg_vars>>

\* Write(req): a new reader, whose stream yields len bytes and then ends with end.
CtrlWrite(len, end) ==
    /\ engine_pc = "select"
    /\ readers < MaxReaders
    /\ readers' = readers + 1
    /\ superseded' = IF receiver_opt # None /\ receiver_opt.pos >= 1 /\ ~receiver_opt.eof
                     THEN superseded \cup {receiver_opt.id} ELSE superseded
    /\ err_streams' = IF end = "err" THEN err_streams \cup {readers + 1} ELSE err_streams
    /\ receive_buf' = <<>>
    /\ receiver_opt' = [id |-> readers + 1, len |-> len, end |-> end, pos |-> 0,
                        eof |-> FALSE]
    /\ num_read' = 0
    /\ UNCHANGED <<handle_vars, send_queue, receive_queue, subscribed, wake_vars,
                   engine_pc, notifier_opt, message, received_message,
                   caller_vars, starts, writers, sent, writes, failed, abandoned,
                   pushed, eofs, errored, mark_vars, msg_vars>>

\* Notify(notifier): the writer is bound, then the flag's lock is awaited.
CtrlNotify ==
    /\ engine_pc = "select"
    /\ writers < MaxWriters
    /\ writers' = writers + 1
    /\ notifier_opt' = [id |-> writers + 1]
    /\ num_read' = 0
    /\ engine_pc' = "sub"
    /\ UNCHANGED <<handle_vars, send_queue, receive_queue, subscribed, wake_vars,
                   receive_buf, receiver_opt, message, received_message,
                   caller_vars, starts, readers, sent, writes, failed, abandoned,
                   pushed, eofs, err_streams, errored, superseded,
                   mark_vars, msg_vars>>

SetSubscribed ==
    /\ engine_pc = "sub"
    /\ subscribed' = TRUE
    /\ engine_pc' = "select"
    /\ UNCHANGED <<handle_vars, send_queue, receive_queue, wake_vars, in_vars,
                   out_vars, caller_vars, starts, abandoned, pushed, mark_vars,
                   msg_vars>>

\* An end of events that would be ignored, the loop going on with its select.
CtrlEnd_continues ==
    /\ engine_pc = "select"
    /\ ended' = TRUE
    /\ UNCHANGED <<handle_vars, send_queue, receive_queue, subscribed, wake_vars,
                   engine_pc, in_vars, out_vars, caller_vars, starts,
                   abandoned, pushed, out_mark, in_mark, msg_vars>>

\* None: the event source has ended, the loop breaks and the task finishes.
CtrlEnd ==
    /\ engine_pc = "select"
    /\ engine_pc' = "exited"
    /\ ended' = TRUE
    /\ DropEngineLocals
    /\ UNCHANGED <<handle_vars, send_queue, receive_queue, subscribed, wake_vars,
                   caller_vars, starts, readers, writers, sent, writes, failed,
                   abandoned, pushed, eofs, err_streams, errored, superseded, out_mark,
                   in_mark, msg_vars>>

\* ------------------------------------------------------------- engine: drain tick
\* A pop that would return the head and leave it in the queue.
pop_front_keeps_head(q) == [val |-> Head(q), rest |-> q]

\* A pop that would take the newest element.
pop_front_takes_last(q) == [val |-> q[Len(q)], rest |-> SubSeq(q, 1, Len(q) - 1)]

\* VecDeque::pop_front on a non-empty queue.
pop_front(q) == [val |-> Head(q), rest |-> Tail(q)]

\* A tick that would take a message from the queue before looking for a writer,
\* and drop it when there is none.
Tick_pops_without_writer ==
    /\ engine_pc = "select"
    /\ num_read' = 0
    /\ IF send_queue # <<>>
       THEN /\ send_queue' = pop_front(send_queue).rest
            /\ IF notifier_opt # None
               THEN message' = pop_front(send_queue).val /\ engine_pc' = "writing"
               ELSE UNCHANGED <<message, engine_pc>>
       ELSE UNCHANGED <<message, send_queue, engine_pc>>
    /\ UNCHANGED <<handle_vars, receive_queue, subscribed, wake_vars, receive_buf,
                   receiver_opt, notifier_opt, received_message, caller_vars,
                   starts, readers, writers, sent, writes, failed, abandoned,
                   pushed, eofs, err_streams, errored, superseded, mark_vars, msg_vars>>

\* notify_interval.tick() won the select: the read in flight is dropped; with a
\* writer bound, one message is popped and write_all is awaited.
\* A tick that would write the front message and leave it queued.
Tick_keeps_queued ==
    /\ engine_pc = "select"
    /\ num_read' = 0
    /\ IF notifier_opt # None /\ send_queue # <<>>
       THEN /\ message' = pop_front(send_queue).val
            /\ engine_pc' = "writing"
       ELSE UNCHANGED <<message, engine_pc>>
    /\ UNCHANGED <<handle_vars, send_queue, receive_queue, subscribed, wake_vars,
                   receive_buf, receiver_opt, notifier_opt, received_message,
                   caller_vars, starts, readers, writers, sent, writes, failed,
                   abandoned, pushed, eofs, err_streams, errored, superseded,
                   mark_vars, msg_vars>>

Tick ==
    /\ engine_pc = "select"
    /\ num_read' = 0
    /\ IF notifier_opt # None /\ send_queue # <<>>
       THEN /\ message' = pop_front(send_queue).val
            /\ send_queue' = pop_front(send_queue).rest
            /\ engine_pc' = "writing"
       ELSE UNCHANGED <<message, send_queue, engine_pc>>
    /\ UNCHANGED <<handle_vars, receive_queue, subscribed, wake_vars, receive_buf,
                   receiver_opt, notifier_opt, received_message, caller_vars,
                   starts, readers, writers, sent, writes, failed, abandoned,
                   pushed, eofs, err_streams, errored, superseded,
                   mark_vars, msg_vars>>

WriteOk ==
    /\ engine_pc = "writing"
    /\ writes' = Append(writes, [writer |-> notifier_opt.id, bytes |-> take_bytes(message)])
    /\ message' = None
    /\ engine_pc' = "select"
    /\ UNCHANGED <<handle_vars, send_queue, receive_queue, subscribed, wake_vars,
                   in_vars, notifier_opt, caller_vars, starts, writers, sent,
                   failed, abandoned, pushed, mark_vars, msg_vars>>

\* A failed write that would put the message back at the head of the queue.
WriteErr_requeues ==
    /\ engine_pc = "writing"
    /\ failed' = Append(failed, message)
    /\ send_queue' = <<message>> \o send_queue
    /\ message' = None
    /\ notifier_opt' = None
    /\ engine_pc' = "unsub"
    /\ UNCHANGED <<handle_vars, receive_queue, subscribed, wake_vars, in_vars,
                   caller_vars, starts, writers, sent, writes, abandoned, pushed,
                   mark_vars, msg_vars>>

\* write_all failed: the writer is dropped, then the flag's lock is awaited.
\* A failed write that would end the engine loop.
WriteErr_ends_loop ==
    /\ engine_pc = "writing"
    /\ failed' = Append(failed, message)
    /\ message' = None
    /\ notifier_opt' = None
    /\ engine_pc' = "exited"
    /\ UNCHANGED <<handle_vars, send_queue, receive_queue, subscribed, wake_vars,
                   in_vars, caller_vars, starts, writers, sent, writes, abandoned,
                   pushed, mark_vars, msg_vars>>

WriteErr ==
    /\ engine_pc = "writing"
    /\ failed' = Append(failed, message)
    /\ message' = None
    /\ notifier_opt' = None
    /\ engine_pc' = "unsub"
    /\ UNCHANGED <<handle_vars, send_queue, receive_queue, subscribed, wake_vars,
                   in_vars, caller_vars, starts, writers, sent, writes, abandoned,
                   pushed, mark_vars, msg_vars>>

\* A write failure that would drop the writer and leave the flag as it is.
SetUnsubscribed_keeps_flag ==
    /\ engine_pc = "unsub"
    /\ engine_pc' = "select"
    /\ UNCHANGED <<handle_vars, send_queue, receive_queue, subscribed, wake_vars,
                   in_vars, out_vars, caller_vars, starts, abandoned, pushed,
                   mark_vars, msg_vars>>

SetUnsubscribed ==
    /\ engine_pc = "unsub"
    /\ subscribed' = FALSE
    /\ engine_pc' = "select"
    /\ UNCHANGED <<handle_vars, send_queue, receive_queue, wake_vars, in_vars,
                   out_vars, caller_vars, starts, abandoned, pushed, mark_vars,
                   msg_vars>>

\* ------------------------------------------------------------- engine: read_to_end
\* A poll of read_to_end takes k more bytes from the stream and stays pending:
\* the bytes are in receive_buf, their count is in the future.
ReadChunk(k) ==
    /\ engine_pc = "select"
    /\ receiver_opt # None
    /\ ~receiver_opt.eof
    /\ receiver_opt.pos + k <= receiver_opt.len
    /\ receive_buf' = receive_buf \o
           StreamBytes(receiver_opt.id, receiver_opt.pos + 1, receiver_opt.pos + k)
    /\ num_read' = num_read + k
    /\ receiver_opt' = [receiver_opt EXCEPT !.pos = @ + k]
    /\ UNCHANGED <<handle_vars, send_queue, receive_queue, subscribed, wake_vars,
                   engine_pc, notifier_opt, message, received_message,
                   caller_vars, starts, readers, writers, sent, writes, failed,
                   abandoned, pushed, eofs, err_streams, errored, superseded,
                   mark_vars, msg_vars>>

\* receive_buf[..n].to_vec()
BufPrefix(buf, n) == SubSeq(buf, 1, n)

\* The stream has ended: read_to_end returns Err, or Ok(n) with the bytes this
\* future has counted.
ReadEnd ==
    /\ engine_pc = "select"
    /\ receiver_opt # None
    /\ receiver_opt.eof \/ receiver_opt.pos = receiver_opt.len
    /\ num_read' = 0
    /\ IF ~receiver_opt.eof /\ receiver_opt.end = "err"
       THEN /\ receiver_opt' = None
            /\ errored' = errored \cup {receiver_opt.id}
            /\ UNCHANGED <<received_message, engine_pc, eofs>>
       ELSE /\ errored' = errored
            /\ eofs' = IF ~receiver_opt.eof /\ receiver_opt.pos >= 1
                       THEN Append(eofs, [id |-> receiver_opt.id, len |-> receiver_opt.len])
                       ELSE eofs
            /\ IF num_read = 0
               THEN /\ receiver_opt' = None
                    /\ UNCHANGED <<received_message, engine_pc>>
               ELSE /\ receiver_opt' = [receiver_opt EXCEPT !.eof = TRUE]
                    /\ received_message' =
                           extend_raw_bytes(Raw(<<>>), BufPrefix(receive_buf, num_read)).msg
                    /\ engine_pc' = "pushing"
    /\ UNCHANGED <<handle_vars, send_queue, receive_queue, subscribed, wake_vars,
                   receive_buf, notifier_opt, message, caller_vars, starts,
                   readers, writers, sent, writes, failed, abandoned, pushed,
                   err_streams, superseded, mark_vars, msg_vars>>

\* Notify::notify_one: the oldest registered waiter is notified, or a permit is stored.
notify_one(cpc, ws, permit) ==
    IF ws # <<>>
    THEN [caller_pc |-> [cpc EXCEPT ![Head(ws)] = "notified"], waiters |-> Tail(ws),
          permit |-> permit]
    ELSE [caller_pc |-> cpc, waiters |-> ws, permit |-> TRUE]

\* The inbound queue's lock is taken: push_back, then notify_one.
Push ==
    /\ engine_pc = "pushing"
    /\ receive_queue' = Append(receive_queue, received_message)
    /\ pushed' = Append(pushed, received_message)
    /\ received_message' = None
    /\ LET n == notify_one(caller_pc, waiters, notify_permit)
       IN /\ caller_pc' = n.caller_pc
          /\ waiters' = n.waiters
          /\ notify_permit' = n.permit
    /\ engine_pc' = "select"
    /\ UNCHANGED <<handle_vars, send_queue, subscribed, receive_buf, receiver_opt,
                   notifier_opt, num_read, message, ret, popped, starts, readers,
                   writers, sent, writes, failed, abandoned, eofs, err_streams, errored, superseded,
                   mark_vars, msg_vars>>

\* ------------------------------------------------------------- receive_message
InCall(c) == caller_pc[c] \notin {"idle", "done"}
CallsMade == Len(popped) + Cardinality({c \in Callers : InCall(c)})

Remove(ws, c) == SelectSeq(ws, LAMBDA x : x # c)

\* The first poll of the select: notified() takes a stored permit, or registers.
EnterSelect(c, cpc, ws, permit) ==
    IF permit
    THEN [caller_pc |-> [cpc EXCEPT ![c] = "popN"], waiters |-> ws, permit |-> FALSE]
    ELSE [caller_pc |-> [cpc EXCEPT ![c] = "waiting"], waiters |-> Append(ws, c),
          permit |-> FALSE]

Call(c) ==
    /\ ~InCall(c)
    /\ CallsMade < MaxCalls
    /\ LET n == EnterSelect(c, caller_pc, waiters, notify_permit)
       IN /\ caller_pc' = n.caller_pc
          /\ waiters' = n.waiters
          /\ notify_permit' = n.permit
    /\ UNCHANGED <<handle_vars, send_queue, receive_queue, subscribed, engine_pc,
                   in_vars, out_vars, ret, popped, starts, abandoned, pushed,
                   mark_vars, msg_vars>>

\* The notified() branch completes for a notified waiter.
Notified(c) ==
    /\ caller_pc[c] = "notified"
    /\ caller_pc' = [caller_pc EXCEPT ![c] = "popN"]
    /\ UNCHANGED <<handle_vars, send_queue, receive_queue, subscribed, wake_vars,
                   engine_pc, in_vars, out_vars, ret, popped, starts, abandoned,
                   pushed, mark_vars, msg_vars>>

\* A receive_message without the one-second timeout.
Recheck_never(c) == FALSE /\ UNCHANGED vars

\* A timeout that would return an empty message to the caller.
Recheck_returns_empty(c) ==
    /\ caller_pc[c] \in {"waiting", "notified"}
    /\ caller_pc' = [caller_pc EXCEPT ![c] = "done"]
    /\ ret' = [ret EXCEPT ![c] = Raw(<<>>)]
    /\ waiters' = Remove(waiters, c)
    /\ UNCHANGED <<handle_vars, send_queue, receive_queue, subscribed, engine_pc,
                   in_vars, out_vars, notify_permit, popped, starts, abandoned,
                   pushed, mark_vars, msg_vars>>

\* The sleep of one second completes first: the Notified future is dropped, which
\* unregisters it, or passes on the notification it had received.
Recheck(c) ==
    /\ caller_pc[c] \in {"waiting", "notified"}
    /\ LET n == IF caller_pc[c] = "notified"
                THEN notify_one(caller_pc, waiters, notify_permit)
                ELSE [caller_pc |-> caller_pc, waiters |-> Remove(waiters, c),
                      permit |-> notify_permit]
       IN /\ caller_pc' = [n.caller_pc EXCEPT ![c] = "popT"]
          /\ waiters' = n.waiters
          /\ notify_permit' = n.permit
    /\ UNCHANGED <<handle_vars, send_queue, receive_queue, subscribed, engine_pc,
                   in_vars, out_vars, ret, popped, starts, abandoned, pushed,
                   mark_vars, msg_vars>>

\* A pop outside the lock's protection: the head is removed and not returned.
Pop_loses_message(c) ==
    /\ caller_pc[c] \in {"popN", "popT"}
    /\ receive_queue' = IF receive_queue = <<>> THEN <<>> ELSE Tail(receive_queue)
    /\ LET n == EnterSelect(c, caller_pc, waiters, notify_permit)
       IN /\ caller_pc' = n.caller_pc
          /\ waiters' = n.waiters
          /\ notify_permit' = n.permit
    /\ UNCHANGED <<handle_vars, send_queue, subscribed, engine_pc, in_vars,
                   out_vars, ret, popped, starts, abandoned, pushed, mark_vars,
                   msg_vars>>

\* The branch body: the queue's lock is taken and pop_front is called; None
\* continues the loop with a new select.
Pop(c) ==
    /\ caller_pc[c] \in {"popN", "popT"}
    /\ IF receive_queue = <<>>
       THEN /\ LET n == EnterSelect(c, caller_pc, waiters, notify_permit)
               IN /\ caller_pc' = n.caller_pc
                  /\ waiters' = n.waiters
                  /\ notify_permit' = n.permit
            /\ UNCHANGED <<receive_queue, ret, popped>>
       ELSE /\ receive_queue' = pop_front(receive_queue).rest
            /\ ret' = [ret EXCEPT ![c] = pop_front(receive_queue).val]
            /\ popped' = Append(popped, [caller |-> c,
                                         msg |-> pop_front(receive_queue).val,
                                         qlen |-> Len(receive_queue)])
            /\ caller_pc' = [caller_pc EXCEPT ![c] = "done"]
            /\ UNCHANGED wake_vars
    /\ UNCHANGED <<handle_vars, send_queue, subscribed, engine_pc, in_vars,
                   out_vars, starts, abandoned, pushed, mark_vars, msg_vars>>

\* ------------------------------------------------------------- the program
Next ==
    \/ StartEngine
    \/ \E stage \in {"session", "serve"} : StartEngineFails(stage)
    \/ StopEngine
    \/ \E m \in MsgChoices(Len(sent) + 1) : SendMessage(m)
    \/ \E len \in 0..MaxStreamLen, end \in {"eof", "err"} : CtrlWrite(len, end)
    \/ CtrlNotify
    \/ SetSubscribed
    \/ CtrlEnd
    \/ Tick
    \/ WriteOk
    \/ WriteErr
    \/ SetUnsubscribed
    \/ \E k \in 1..MaxStreamLen : ReadChunk(k)
    \/ ReadEnd
    \/ Push
    \/ \E c \in Callers : Call(c)
    \/ \E c \in Callers : Notified(c)
    \/ \E c \in Callers : Recheck(c)
    \/ \E c \in Callers : Pop(c)

Spec == Init /\ [][Next]_vars

\* The program with a central that subscribes and never writes, and an
\* application that sends and never calls receive_message.
NextOut ==
    \/ StartEngine
    \/ \E stage \in {"session", "serve"} : StartEngineFails(stage)
    \/ StopEngine
    \/ \E m \in MsgChoices(Len(sent) + 1) : SendMessage(m)
    \/ CtrlNotify
    \/ SetSubscribed
    \/ CtrlEnd
    \/ Tick
    \/ WriteOk
    \/ WriteErr
    \/ SetUnsubscribed

SpecOut == Init /\ [][NextOut]_vars

\* The program with a central that subscribes and writes one-byte streams, and
\* an application that sends one message and never calls receive_message.
NextSub ==
    \/ StartEngine
    \/ \E stage \in {"session", "serve"} : StartEngineFails(stage)
    \/ StopEngine
    \/ sent = <<>> /\ \E m \in MsgChoices(1) : SendMessage(m)
    \/ CtrlWrite(1, "eof")
    \/ CtrlNotify
    \/ SetSubscribed
    \/ CtrlEnd
    \/ Tick
    \/ WriteOk
    \/ WriteErr
    \/ SetUnsubscribed
    \/ ReadChunk(1)
    \/ ReadEnd
    \/ Push

SpecSub == Init /\ [][NextSub]_vars

\* The program with a central that subscribes and writes any stream, and an
\* application that neither sends nor calls receive_message.
NextIn ==
    \/ StartEngine
    \/ \E stage \in {"session", "serve"} : StartEngineFails(stage)
    \/ StopEngine
    \/ \E len \in 0..MaxStreamLen, end \in {"eof", "err"} : CtrlWrite(len, end)
    \/ CtrlNotify
    \/ SetSubscribed
    \/ CtrlEnd
    \/ Tick
    \/ \E k \in 1..MaxStreamLen : ReadChunk(k)
    \/ ReadEnd
    \/ Push

SpecIn == Init /\ [][NextIn]_vars

\* The program with a central that writes and never subscribes, and an
\* application that neither sends nor calls receive_message.
NextWrite ==
    \/ StartEngine
    \/ StopEngine
    \/ \E len \in 0..MaxStreamLen, end \in {"eof", "err"} : CtrlWrite(len, end)
    \/ CtrlEnd
    \/ Tick
    \/ \E k \in 1..MaxStreamLen : ReadChunk(k)
    \/ ReadEnd
    \/ Push

SpecWrite == Init /\ [][NextWrite]_vars

\* The program with a central that writes one-byte streams and never
\* subscribes, and an application that calls receive_message.
NextRecv ==
    \/ StartEngine
    \/ StopEngine
    \/ CtrlWrite(1, "eof")
    \/ ReadChunk(1)
    \/ ReadEnd
    \/ Push
    \/ \E c \in Callers : Call(c)
    \/ \E c \in Callers : Notified(c)
    \/ \E c \in Callers : Recheck(c)
    \/ \E c \in Callers : Pop(c)

SpecRecv == Init /\ [][NextRecv]_vars

\* The timer of each select fires, a notified task is polled, and the fair lock
\* of the inbound queue is granted.
CallerFairness ==
    \A c \in Callers :
        /\ WF_vars(Recheck(c))
        /\ WF_vars(Notified(c))
        /\ WF_vars(Pop(c))

LiveRecv == Init /\ [][NextRecv]_vars /\ CallerFairness

\* One run of the engine, never stopped, with a central that writes one-byte
\* streams and an application that calls receive_message.
NextWake ==
    \/ StartEngine
    \/ CtrlWrite(1, "eof")
    \/ ReadChunk(1)
    \/ ReadEnd
    \/ Push
    \/ \E c \in Callers : Call(c)
    \/ \E c \in Callers : Notified(c)
    \/ \E c \in Callers : Recheck(c)
    \/ \E c \in Callers : Pop(c)

LiveWake == Init /\ [][NextWake]_vars /\ CallerFairness

\* The running engine with a central that stays connected, subscribes and
\* writes one-byte streams, of which every other one ends in an error, and an
\* application that sends text messages.
NextErr ==
    \/ StartEngine
    \/ SendMessage(Text(<<64 + Len(sent) + 1, 232>>))
    \/ CtrlNotify
    \/ SetSubscribed
    \/ Tick
    \/ WriteOk
    \/ WriteErr
    \/ SetUnsubscribed
    \/ CtrlWrite(1, IF readers % 2 = 0 THEN "err" ELSE "eof")
    \/ ReadChunk(1)
    \/ ReadEnd
    \/ Push

\* The fair locks of the flag and of the queues are granted, the interval
\* ticks, and write_all returns.
EngineFairness ==
    /\ WF_vars(SetSubscribed)
    /\ WF_vars(SetUnsubscribed)
    /\ WF_vars(Push)
    /\ WF_vars(Tick)
    /\ WF_vars(WriteOk \/ WriteErr)

LiveErr == Init /\ [][NextErr]_vars /\ EngineFairness

\* ------------------------------------------------------------- channel variant
\* The crate ble_peripheral keeps the same handle and engine locals, with an
\* unbounded channel in place of each queue (send_queue is the send channel,
\* receive_queue the receive channel) and a watch channel in place of the
\* flag (subscribed is its value).  stop_engine and the failing start are the
\* same code as above.
ZeroByte == <<0, 0>>

\* vec![0; req.mtu()]
ZeroBuf == [i \in 1..Mtu |-> ZeroByte]

\* The sender is created by the first successful start and is never taken.
SenderIsSome == starts > 0

ChStartEngine ==
    /\ ble_thread = "None"
    /\ starts < MaxStarts
    /\ starts' = starts + 1
    /\ adv_handler' = TRUE
    /\ app_handler' = TRUE
    /\ send_queue' = <<>>
    /\ receive_queue' = <<>>
    /\ subscribed' = FALSE
    /\ DropEngineLocals
    /\ engine_pc' = "select"
    /\ ble_thread' = "Some"
    /\ UNCHANGED <<wake_vars, caller_vars, readers, writers, sent, writes, failed,
                   abandoned, pushed, eofs, err_streams, errored, superseded, mark_vars,
                   msg_vars>>

\* Err when the sender is None or the aborted task has dropped the channel's
\* receiver; the message is queued otherwise.
ChSendMessage(m) ==
    /\ Len(sent) < MaxSend
    /\ IF SenderIsSome /\ ble_thread = "Some"
       THEN /\ send_queue' = Append(send_queue, m)
            /\ sent' = Append(sent, m)
       ELSE UNCHANGED <<send_queue, sent>>
    /\ UNCHANGED <<handle_vars, receive_queue, subscribed, wake_vars, engine_pc,
                   in_vars, message, notifier_opt, writers, caller_vars, starts,
                   writes, failed, abandoned, pushed, mark_vars, msg_vars>>

ChCtrlWrite(len, end) ==
    /\ engine_pc = "select"
    /\ ~ended
    /\ readers < MaxReaders
    /\ readers' = readers + 1
    /\ err_streams' = IF end = "err" THEN err_streams \cup {readers + 1} ELSE err_streams
    /\ receive_buf' = ZeroBuf
    /\ receiver_opt' = [id |-> readers + 1, len |-> len, end |-> end, pos |-> 0,
                        eof |-> FALSE]
    /\ UNCHANGED <<handle_vars, send_queue, receive_queue, subscribed, wake_vars,
                   engine_pc, notifier_opt, num_read, message, received_message,
                   caller_vars, starts, writers, sent, writes, failed, abandoned,
                   pushed, eofs, errored, superseded, mark_vars, msg_vars>>

ChCtrlNotify ==
    /\ engine_pc = "select"
    /\ ~ended
    /\ writers < MaxWriters
    /\ writers' = writers + 1
    /\ notifier_opt' = [id |-> writers + 1]
    /\ subscribed' = TRUE
    /\ UNCHANGED <<handle_vars, send_queue, receive_queue, wake_vars, engine_pc,
                   in_vars, message, caller_vars, starts, sent, writes, failed,
                   abandoned, pushed, mark_vars, msg_vars>>

\* `_ => {}`: the event source has ended (it yields no event from now on);
\* nothing changes and the loop goes on.
ChCtrlOther ==
    /\ engine_pc = "select"
    /\ ended' = TRUE
    /\ UNCHANGED <<handle_vars, send_queue, receive_queue, subscribed, wake_vars,
                   engine_pc, in_vars, out_vars, caller_vars, starts, abandoned,
                   pushed, out_mark, in_mark, msg_vars>>

\* send_rx.recv(): the message is taken from the channel, and written only
\* when a writer is bound.
ChSendRecv ==
    /\ engine_pc = "select"
    /\ send_queue # <<>>
    /\ send_queue' = Tail(send_queue)
    /\ IF notifier_opt # None
       THEN /\ message' = Head(send_queue)
            /\ engine_pc' = "writing"
       ELSE UNCHANGED <<message, engine_pc>>
    /\ UNCHANGED <<handle_vars, receive_queue, subscribed, wake_vars, in_vars,
                   notifier_opt, writers, caller_vars, starts, sent, writes,
                   failed, abandoned, pushed, mark_vars, msg_vars>>

ChWriteOk ==
    /\ engine_pc = "writing"
    /\ writes' = Append(writes, [writer |-> notifier_opt.id, bytes |-> take_bytes(message)])
    /\ message' = None
    /\ engine_pc' = "select"
    /\ UNCHANGED <<handle_vars, send_queue, receive_queue, subscribed, wake_vars,
                   in_vars, notifier_opt, caller_vars, starts, writers, sent,
                   failed, abandoned, pushed, mark_vars, msg_vars>>

ChWriteErr ==
    /\ engine_pc = "writing"
    /\ failed' = Append(failed, message)
    /\ message' = None
    /\ notifier_opt' = None
    /\ subscribed' = FALSE
    /\ engine_pc' = "select"
    /\ UNCHANGED <<handle_vars, send_queue, receive_queue, wake_vars, in_vars,
                   caller_vars, starts, writers, sent, writes, abandoned, pushed,
                   mark_vars, msg_vars>>

\* One read of at most Mtu bytes: the k bytes it yields are sent as a message
\* (none on Err), and the reader is dropped in every case.
ChRead(k) ==
    /\ engine_pc = "select"
    /\ receiver_opt # None
    /\ IF receiver_opt.len = 0 THEN k = 0 ELSE k >= 1 /\ k <= receiver_opt.len
    /\ IF k = 0 /\ receiver_opt.end = "err"
       THEN /\ errored' = errored \cup {receiver_opt.id}
            /\ UNCHANGED <<receive_buf, receive_queue, pushed>>
       ELSE /\ receive_buf' = StreamBytes(receiver_opt.id, 1, k)
                                  \o SubSeq(receive_buf, k + 1, Mtu)
            /\ receive_queue' = Append(receive_queue, Raw(BufPrefix(receive_buf', k)))
            /\ pushed' = Append(pushed, Raw(BufPrefix(receive_buf', k)))
            /\ errored' = errored
    /\ receiver_opt' = None
    /\ UNCHANGED <<handle_vars, send_queue, subscribed, wake_vars, engine_pc,
                   notifier_opt, num_read, message, received_message,
                   caller_vars, starts, readers, writers, sent, writes, failed,
                   abandoned, eofs, err_streams, superseded, mark_vars, msg_vars>>

\* receive_message takes &mut self: one caller at a time, which waits on the
\* channel until a message is there.
ChReceiveMessage ==
    /\ SenderIsSome
    /\ receive_queue # <<>>
    /\ Len(popped) < MaxCalls
    /\ receive_queue' = Tail(receive_queue)
    /\ ret' = [ret EXCEPT ![1] = Head(receive_queue)]
    /\ popped' = Append(popped, [caller |-> 1, msg |-> Head(receive_queue),
                                 qlen |-> Len(receive_queue)])
    /\ UNCHANGED <<handle_vars, send_queue, subscribed, wake_vars, engine_pc,
                   in_vars, out_vars, caller_pc, starts, abandoned, pushed,
                   mark_vars, msg_vars>>

\* The channel variant with an application that sends one message.
NextCh ==
    \/ ChStartEngine
    \/ \E stage \in {"session", "serve"} : StartEngineFails(stage)
    \/ StopEngine
    \/ sent = <<>> /\ \E m \in MsgChoices(1) : ChSendMessage(m)
    \/ \E len \in 0..MaxStreamLen, end \in {"eof", "err"} : ChCtrlWrite(len, end)
    \/ ChCtrlNotify
    \/ ChCtrlOther
    \/ ChSendRecv
    \/ ChWriteOk
    \/ ChWriteErr
    \/ \E k \in 0..Mtu : ChRead(k)
    \/ ChReceiveMessage

SpecCh == Init /\ [][NextCh]_vars

\* ------------------------------------------------------------- BleMessage methods
\* A BleMessage is made from a string or a byte vector and its methods are
\* called on it; the peripheral is not involved.
peripheral_vars ==
    <<handle_vars, send_queue, receive_queue, subscribed, wake_vars, engine_pc,
      in_vars, out_vars, caller_vars, starts, abandoned, pushed, mark_vars>>

SeqsUpTo(S, n) == UNION {[1..k -> S] : k \in 0..n}

\* 'A', e with grave accent and the euro sign: one, two and three bytes.
Strings == SeqsUpTo({65, 232, 8364}, MaxMsgLen)

\* The bytes of those characters and a byte that no UTF-8 sequence holds.
ByteVecs == SeqsUpTo({65, 195, 168, 226, 130, 172, 255}, MaxMsgLen)
                \cup {Utf8(s) : s \in Strings}

MsgInputs == {[kind |-> "str", val |-> s] : s \in Strings}
                 \cup {[kind |-> "bytes", val |-> b] : b \in ByteVecs}

ExtendArgs == {<<>>, <<168>>, <<65, 255>>}

InitMsg ==
    /\ NewPeripheral
    /\ msg_input \in MsgInputs
    /\ msg_self = None
    /\ msg_ops = <<>>
    /\ msg_out = None

Called(op, arg) == Append(msg_ops, [op |-> op, arg |-> arg])

MsgFrom ==
    /\ msg_ops = <<>>
    /\ msg_self' = IF msg_input.kind = "str" THEN From_str(msg_input.val)
                   ELSE From_bytes(msg_input.val)
    /\ msg_ops' = Called("from", <<>>)
    /\ UNCHANGED <<peripheral_vars, msg_input, msg_out>>

\* take_bytes(self) consumes the message.
MsgTakeBytes ==
    /\ msg_self # None
    /\ Len(msg_ops) < MaxOps
    /\ msg_out' = [ok |-> TRUE, val |-> take_bytes(msg_self)]
    /\ msg_self' = None
    /\ msg_ops' = Called("take_bytes", <<>>)
    /\ UNCHANGED <<peripheral_vars, msg_input>>

\* convert_to_text(self) consumes the message and returns the text message or
\* an error.
MsgConvertToText ==
    /\ msg_self # None
    /\ Len(msg_ops) < MaxOps
    /\ msg_out' = [ok |-> convert_to_text(msg_self).ok, val |-> <<>>]
    /\ msg_self' = IF convert_to_text(msg_self).ok THEN convert_to_text(msg_self).msg
                   ELSE None
    /\ msg_ops' = Called("convert_to_text", <<>>)
    /\ UNCHANGED <<peripheral_vars, msg_input>>

\* extend_raw_bytes(&mut self, bytes)
MsgExtend(bytes) ==
    /\ msg_self # None
    /\ Len(msg_ops) < MaxOps
    /\ msg_out' = [ok |-> extend_raw_bytes(msg_self, bytes).ok, val |-> <<>>]
    /\ msg_self' = extend_raw_bytes(msg_self, bytes).msg
    /\ msg_ops' = Called("extend_raw_bytes", bytes)
    /\ UNCHANGED <<peripheral_vars, msg_input>>

NextMsg ==
    \/ MsgFrom
    \/ MsgTakeBytes
    \/ MsgConvertToText
    \/ \E bytes \in ExtendArgs : MsgExtend(bytes)

SpecMsg == InitMsg /\ [][NextMsg]_vars

\* ------------------------------------------------------------- claims
Running == ble_thread = "Some"
InFlightOut == IF engine_pc = "writing" THEN <<message>> ELSE <<>>
InFlightIn == IF engine_pc = "pushing" THEN <<received_message>> ELSE <<>>
Suffix(q, n) == SubSeq(q, Len(q) - n + 1, Len(q))
PoppedMsgs == [i \in 1..Len(popped) |-> popped[i].msg]

\* C1: as long as no write has failed and no abort has cut a write short, the
\* writes observed on the notify stream are take_bytes of the first messages
\* passed to send_message, in call order, one message is in flight at most, and
\* the messages not yet written are the rest of the calls, in order.
C1_OutboundOrder ==
    (failed = <<>> /\ abandoned = <<>>) =>
        /\ Len(writes) <= Len(sent)
        /\ \A i \in 1..Len(writes) : writes[i].bytes = take_bytes(sent[i])
        /\ sent = SubSeq(sent, 1, Len(writes)) \o InFlightOut \o send_queue

C1_Witness ==
    /\ failed = <<>>
    /\ abandoned = <<>>
    /\ Len(writes) = 3
    /\ writes[1].writer = writes[3].writer
    /\ sent[1].kind = "Text"
    /\ sent[2].kind = "Raw"

\* C7: a message whose write_all failed is in no queue, is not being written
\* and has been written by no writer; the failure unbinds the writer and, once
\* its handler is done, the flag is false; the queued messages are still the
\* last calls of send_message, in call order.
C7_SendOnce ==
    /\ \A i \in 1..Len(failed) :
          /\ failed[i] \notin Range(send_queue)
          /\ failed[i] \notin Range(InFlightOut)
          /\ \A j \in 1..Len(writes) : writes[j].bytes # take_bytes(failed[i])
    /\ engine_pc = "unsub" => notifier_opt = None
    /\ (engine_pc = "select" /\ notifier_opt = None) => ~is_subscribed
    /\ send_queue = Suffix(sent, Len(send_queue))

\* m1 failed on the first writer; m2 and m3, queued behind it, were written by
\* the second writer.
C7_Witness ==
    /\ Len(sent) = 3
    /\ failed = <<sent[1]>>
    /\ Len(writes) = 2
    /\ writes[1] = [writer |-> 2, bytes |-> take_bytes(sent[2])]
    /\ writes[2] = [writer |-> 2, bytes |-> take_bytes(sent[3])]

\* C4: a successful start_engine leaves the flag false; the flag changes only
\* in start_engine, to true at the end of the handler of a notify-subscribed
\* event, and to false at the end of the handler of a failed write; each of the
\* two handlers ends with the flag so set.
C4_Step ==
    /\ starts' = starts + 1 => ~is_subscribed'
    /\ subscribed' # subscribed =>
          \/ starts' = starts + 1
          \/ engine_pc = "sub" /\ engine_pc' = "select" /\ subscribed'
          \/ engine_pc = "unsub" /\ engine_pc' = "select" /\ ~subscribed'
    /\ (engine_pc = "sub" /\ engine_pc' = "select") => is_subscribed'
    /\ (engine_pc = "unsub" /\ engine_pc' = "select") => ~is_subscribed'

C4_SubscriptionTransitions == [][C4_Step]_vars

\* The second run of the engine: subscribed, a write failed, and the flag is
\* false again, after a write-control-event and a read.
C4_Witness ==
    /\ starts = 2
    /\ Running
    /\ engine_pc = "select"
    /\ writers = 2
    /\ Len(failed) = 1
    /\ Len(pushed) >= 1
    /\ ~is_subscribed

\* C8: a send_message call on a handle that holds no engine task leaves the
\* outbound queue as it was; a call on a running handle appends the message.
C8_Step ==
    Len(sent') = Len(sent) + 1 =>
        IF Running THEN send_queue' = Append(send_queue, sent'[Len(sent')])
        ELSE send_queue' = send_queue

C8_NotRunningError == [][C8_Step]_vars

\* C9: no write and no receive_message call delivers a message that was passed
\* to send_message, or appended to the inbound queue, before stop_engine last
\* stopped an engine task.
C9_Step ==
    /\ Len(writes') = Len(writes) + 1 =>
          \E i \in (out_mark + 1)..Len(sent) :
              take_bytes(sent[i]) = writes'[Len(writes')].bytes
    /\ Len(popped') = Len(popped) + 1 =>
          \E i \in (in_mark + 1)..Len(pushed) : pushed[i] = popped'[Len(popped')].msg

C9_StopDiscards == [][C9_Step]_vars

\* C5: the n-th message receive_message returns is the n-th message the engine
\* appended to the inbound queue.
C5_FifoReceive ==
    /\ Len(popped) <= Len(pushed)
    /\ \A i \in 1..Len(popped) : popped[i].msg = pushed[i]

\* Three messages were queued before the first call; one caller made three
\* calls, one after the other.
C5_Witness ==
    /\ Len(popped) = 3
    /\ popped[1].qlen = 3
    /\ \A i \in 1..3 : popped[i].caller = 1

\* C6: the messages appended to the inbound queue are the messages returned so
\* far followed by the messages still queued: none is returned twice and none
\* leaves the queue without being returned; the caller that removed a message
\* holds it as its return value.
C6_ConcurrentReceivers ==
    /\ pushed = PoppedMsgs \o receive_queue
    /\ \A i, j \in 1..Len(popped) : i # j => popped[i].msg # popped[j].msg
    /\ \A c \in Callers :
          LET mine == SelectSeq(popped, LAMBDA e : e.caller = c)
          IN IF mine = <<>> THEN ret[c] = None
             ELSE ret[c] = mine[Len(mine)].msg

\* Both callers were in receive_message with the queue empty, and each has
\* returned one of two messages.
C6_Witness ==
    /\ Len(popped) = 2
    /\ popped[1].caller # popped[2].caller
    /\ popped[1].qlen = 1
    /\ popped[2].qlen = 1
    /\ \A c \in Callers : caller_pc[c] = "done"

\* C10 as stated: a caller that is in receive_message while the inbound queue
\* holds a message eventually returns a message.
C10_ReceiveLiveness ==
    \A c \in Callers :
        (receive_queue # <<>> /\ InCall(c)) ~> (caller_pc[c] = "done")

\* C10, amended: a caller that is in receive_message while the inbound queue
\* holds a message eventually returns a message, unless other callers empty
\* the queue first.
C10_ReceiveLivenessShared ==
    \A c \in Callers :
        (receive_queue # <<>> /\ InCall(c)) ~>
            (caller_pc[c] = "done" \/ receive_queue = <<>>)

\* Two messages were queued before the first call, so one permit was stored
\* for both; it went with the first message, and the second call reaches the
\* second message through the sleep branch.
C10_Witness ==
    /\ Len(pushed) = 2
    /\ Len(popped) = 1
    /\ popped[1].qlen = 2
    /\ ~notify_permit
    /\ receive_queue # <<>>
    /\ \E c \in Callers : caller_pc[c] = "popT"

\* C2: the inbound messages appended or about to be appended are, in order,
\* one Raw message for each stream read to end-of-data after a byte or more,
\* holding all the bytes of that stream; only a message the aborted task held
\* may be missing.
Complete(e) == Raw(StreamBytes(e.id, 1, e.len))
Emitted == pushed \o InFlightIn

C2_InboundReassembly ==
    /\ Len(Emitted) <= Len(eofs)
    /\ \A i \in 1..Len(Emitted) : \E j \in 1..Len(eofs) : Emitted[i] = Complete(eofs[j])
    /\ \A i, j \in 1..Len(Emitted) : i < j => Emitted[i] # Emitted[j]
    /\ \A j \in 1..Len(eofs) :
          Complete(eofs[j]) \in Range(Emitted) \cup Range(abandoned)

\* C3: no byte of a stream that ends in a read error is in a message appended
\* or about to be appended to the inbound queue, and a reader whose read has
\* failed is no longer bound.
ErrBytes(m) == {i \in 1..Len(m.val) : m.val[i][1] \in err_streams}

C3_PartialReadDiscard ==
    /\ \A i \in 1..Len(Emitted) : ErrBytes(Emitted[i]) = {}
    /\ receiver_opt # None => receiver_opt.id \notin errored

\* C11: receive_message returns only messages the engine loop appended to the
\* inbound queue; as long as none was appended, no call has returned, whatever
\* wake-ups and re-checks its callers went through.
C11_NoSpuriousReturn ==
    /\ \A i \in 1..Len(popped) : popped[i].msg \in Range(pushed)
    /\ \A c \in Callers :
          /\ caller_pc[c] = "done" => ret[c] \in Range(pushed)
          /\ pushed = <<>> => caller_pc[c] # "done" /\ ret[c] = None

\* The engine runs, nothing was appended, and a caller is at its re-check after
\* the timeout while another one waits.
C11_Witness ==
    /\ Running
    /\ pushed = <<>>
    /\ caller_pc[1] = "popT"
    /\ caller_pc[2] = "waiting"

\* C12: a caller that is in receive_message on an empty inbound queue once
\* stop_engine has stopped the engine eventually leaves the call.
C12_StopReleasesReceivers ==
    \A c \in Callers :
        (InCall(c) /\ receive_queue = <<>> /\ starts > 0 /\ ~Running) ~> ~InCall(c)

\* C13: once the control-event source has ended, the engine task has left its
\* loop, and no step reads, writes, appends to the inbound queue, pops the
\* outbound queue or changes the subscription flag.
IsPrefix(p, q) == Len(p) <= Len(q) /\ SubSeq(q, 1, Len(p)) = p
IsSuffix(p, q) == Len(p) <= Len(q) /\ Suffix(q, Len(p)) = p

C13_Step ==
    ended =>
        /\ engine_pc = "exited"
        /\ UNCHANGED <<writes, failed, message, notifier_opt>>
        /\ UNCHANGED <<receive_buf, receiver_opt, num_read, received_message, eofs,
                       errored, pushed>>
        /\ IsPrefix(send_queue, send_queue')
        /\ IsSuffix(receive_queue', receive_queue)
        /\ subscribed' = subscribed

C13_StreamEndedTerminates == [][C13_Step]_vars

\* The source ended while a subscriber was bound, a message had been received
\* and a message was waiting in the outbound queue.
C13_Witness ==
    /\ ended
    /\ Running
    /\ subscribed
    /\ send_queue # <<>>
    /\ pushed # <<>>

\* C14: stop_engine on a handle that holds no engine task and no registration
\* (never started, or stopped before) changes nothing, and every stop_engine
\* leaves the handle in that state, so that a second one changes nothing.
Stopped == ble_thread = "None" /\ ~app_handler /\ ~adv_handler

C14_Step ==
    StopEngine =>
        /\ Stopped'
        /\ Stopped => UNCHANGED vars

C14_StopIdempotent == [][C14_Step]_vars

\* An engine was stopped after a message had been sent: the handle is where a
\* second stop_engine finds it, with the message still queued.
C14_Witness ==
    /\ Stopped
    /\ starts = 1
    /\ out_mark >= 1
    /\ send_queue # <<>>

\* C15: take_bytes of the message made from a string is the string's UTF-8
\* bytes; convert_to_text of the message made from the UTF-8 bytes of a string
\* succeeds with that string as Text; take_bytes of the message made from a
\* byte vector is the byte vector.
FirstCallWas(op) == Len(msg_ops) = 2 /\ msg_ops[2].op = op

C15_MessageRoundTrip ==
    /\ (FirstCallWas("take_bytes") /\ msg_input.kind = "str") =>
           msg_out = [ok |-> TRUE, val |-> Utf8(msg_input.val)]
    /\ (FirstCallWas("take_bytes") /\ msg_input.kind = "bytes") =>
           msg_out = [ok |-> TRUE, val |-> msg_input.val]
    /\ (FirstCallWas("convert_to_text") /\ msg_input.kind = "bytes") =>
           \A s \in Strings :
               Utf8(s) = msg_input.val => msg_out.ok /\ msg_self = Text(s)

\* The six bytes of two euro signs were made into a message and converted.
C15_Witness ==
    /\ msg_input = [kind |-> "bytes", val |-> <<226, 130, 172, 226, 130, 172>>]
    /\ FirstCallWas("convert_to_text")
    /\ msg_self = Text(<<8364, 8364>>)

\* C16: convert_to_text fails on Text and succeeds on Raw; extend_raw_bytes
\* fails on Text and leaves the message as it was, and on Raw(v) it succeeds
\* and leaves Raw(v ++ bytes).
C16_Step ==
    /\ MsgConvertToText => (msg_out'.ok <=> msg_self.kind = "Raw")
    /\ MsgConvertToText => (~msg_out'.ok <=> msg_self.kind = "Text")
    /\ \A bytes \in ExtendArgs :
          MsgExtend(bytes) =>
              IF msg_self.kind = "Text"
              THEN ~msg_out'.ok /\ msg_self' = msg_self
              ELSE /\ msg_self.kind = "Raw"
                   /\ msg_out'.ok
                   /\ msg_self' = Raw(msg_self.val \o bytes)

C16_MessageVariantErrors == [][C16_Step]_vars

\* The message made from a two-character string was extended: the call has
\* failed and the message is the Text it was.
C16_Witness ==
    /\ msg_input = [kind |-> "str", val |-> <<65, 232>>]
    /\ Len(msg_ops) = 2
    /\ msg_ops[2] = [op |-> "extend_raw_bytes", arg |-> <<65, 255>>]
    /\ ~msg_out.ok
    /\ msg_self = Text(<<65, 232>>)

\* C17: a drain tick that finds no writer bound, or the outbound queue empty,
\* leaves the outbound queue, the writes and the subscription flag as they
\* were; so before the first notify-subscribed event every message sent is
\* still queued, and with no failed and no aborted write the writes that
\* follow it are the messages sent, in order.
C17_Step ==
    /\ (Tick /\ (notifier_opt = None \/ send_queue = <<>>)) =>
           UNCHANGED <<send_queue, writes, failed, message, subscribed, engine_pc>>
    /\ writers = 0 => send_queue = sent /\ writes = <<>>
    /\ (failed = <<>> /\ abandoned = <<>>) =>
           /\ Len(writes) <= Len(sent)
           /\ \A i \in 1..Len(writes) : writes[i].bytes = take_bytes(sent[i])

C17_DrainNoOp == [][C17_Step]_vars

\* The engine runs and is at its select with three messages queued and no
\* writer ever bound: each tick that fires here finds no writer.
C17_Witness ==
    /\ Running
    /\ engine_pc = "select"
    /\ writers = 0
    /\ notifier_opt = None
    /\ Len(send_queue) = 3
    /\ ~subscribed

\* C18: while the engine loop of the channel variant is at its select with no
\* writer bound, no step takes a message out of the send channel: the
\* messages accepted stay queued until a writer is bound.
C18_Step ==
    (engine_pc = "select" /\ notifier_opt = None /\ engine_pc' = "select") =>
        IsPrefix(send_queue, send_queue')

C18_ChannelDrainNoOp == [][C18_Step]_vars

\* C19: every inbound message appended or about to be appended holds bytes of
\* one reader only, and of no reader that a write event replaced in the middle
\* of its stream; the buffer holds only bytes of the reader that is bound.
ReadersOf(bytes) == {bytes[i][1] : i \in 1..Len(bytes)}

C19_NoMessageSpansWrites ==
    /\ \A i \in 1..Len(Emitted) :
          /\ Cardinality(ReadersOf(Emitted[i].val)) <= 1
          /\ ReadersOf(Emitted[i].val) \cap superseded = {}
    /\ receiver_opt # None => ReadersOf(receive_buf) \subseteq {receiver_opt.id}

\* Reader 1 was replaced after a byte of its stream had been read, and the
\* first message appended since then is the whole stream of reader 2.
C19_Witness ==
    /\ 1 \in superseded
    /\ pushed = <<Raw(StreamBytes(2, 1, 2))>>

\* C20: the engine loop goes back to its select after a read error and after
\* a write failure; the notify-subscribed event that follows sets the
\* subscription flag, and the messages in the outbound queue are then written
\* again, in the order they were sent.
SentIndex(b) == CHOOSE k \in 1..Len(sent) : take_bytes(sent[k]) = b

C20_Step ==
    /\ \A i, j \in 1..Len(writes) :
          i < j => SentIndex(writes[i].bytes) < SentIndex(writes[j].bytes)
    /\ (engine_pc = "sub" /\ engine_pc' = "select") => subscribed'
    /\ errored' # errored => engine_pc' = "select" /\ receiver_opt' = None
    /\ failed' # failed => engine_pc' = "unsub" /\ notifier_opt' = None
    /\ (engine_pc = "unsub" /\ engine_pc' # "unsub") =>
           engine_pc' = "select" /\ ~subscribed'

C20_ErrorsRecovered ==
    /\ [][C20_Step]_vars
    /\ (engine_pc \in {"sub", "writing", "unsub", "pushing"}) ~> (engine_pc = "select")
    /\ (engine_pc = "sub") ~> subscribed
    /\ (engine_pc = "select" /\ notifier_opt # None /\ send_queue # <<>>)
           ~> (engine_pc = "writing")

\* The first writer failed on the first message and the first reader on its
\* stream; a second writer was bound and has written the second message, the
\* flag is true again, and the stream of the second reader has been appended.
C20_Witness ==
    /\ Len(sent) >= 2
    /\ engine_pc = "select"
    /\ subscribed
    /\ failed = <<sent[1]>>
    /\ writes = <<[writer |-> 2, bytes |-> take_bytes(sent[2])]>>
    /\ errored = {1}
    /\ pushed = <<Raw(StreamBytes(2, 1, 1))>>

\* C21: while the handle holds no engine task, the engine loop is at no
\* position and takes no step: nothing is appended to the inbound queue,
\* nothing is popped from the outbound queue or written, and until the next
\* start the subscription flag keeps its value.
C21_Step ==
    ble_thread = "None" =>
        /\ engine_pc = "none"
        /\ UNCHANGED <<writes, failed, pushed, abandoned>>
        /\ IsPrefix(send_queue, send_queue')
        /\ IsSuffix(receive_queue', receive_queue)
        /\ ble_thread' = "None" => subscribed' = subscribed

C21_CancellationFinal == [][C21_Step]_vars

\* stop_engine has cut short the append of a received message, while a
\* subscriber was bound and a message was waiting in the outbound queue.
C21_Witness ==
    /\ ble_thread = "None"
    /\ abandoned = <<Raw(StreamBytes(1, 1, 1))>>
    /\ send_queue # <<>>
    /\ writers >= 1

\* C22: when the read of a bound reader first reports end-of-data, with no
\* error, one message holding all the bytes of the reader's stream is about
\* to be appended, also when the stream has no byte (an empty Raw message).
C22_Step ==
    (ReadEnd /\ ~receiver_opt.eof /\ receiver_opt.end = "eof") =>
        /\ engine_pc' = "pushing"
        /\ received_message' = Raw(StreamBytes(receiver_opt.id, 1, receiver_opt.len))

C22_EndOfDataEmits == [][C22_Step]_vars

\* C23: no caller of receive_message stays waiting for a wake-up while the
\* inbound queue holds a message: the timeout takes it out of the wait.
WaitsOnMessage(c) == receive_queue # <<>> /\ caller_pc[c] = "waiting"

C23_RecheckGivesProgress ==
    \A c \in Callers : WaitsOnMessage(c) ~> ~WaitsOnMessage(c)

\* Two messages were appended before the first call, which took the one
\* permit and the first message; a later call waits for a wake-up that will
\* not come, with the second message in the queue.
C23_Witness ==
    /\ Len(pushed) = 2
    /\ popped # <<>>
    /\ popped[1].qlen = 2
    /\ ~notify_permit
    /\ engine_pc = "select"
    /\ receiver_opt = None
    /\ \E c \in Callers : WaitsOnMessage(c)

\* C24: once the control-event source of the channel variant has ended, the
\* engine task has left its loop.
C24_ChannelStreamEnded == ended => engine_pc = "exited"

\* C25: whenever the running engine loop is at its select, the subscription
\* flag is true exactly when a notify writer is bound; while the loop runs the
\* two differ only inside the handler of a notify-subscribed event ("sub") or
\* of a failed write ("unsub").
C25_FlagMatchesWriter ==
    /\ (Running /\ engine_pc = "select") =>
           (is_subscribed <=> notifier_opt # None)
    /\ (Running /\ engine_pc # "exited"
               /\ ~(is_subscribed <=> notifier_opt # None)) =>
           engine_pc \in {"sub", "unsub"}

\* The loop is at its select after a write failure and after the
\* notify-subscribed event that followed it: a second writer is bound and the
\* flag is true.
C25_Witness ==
    /\ Running
    /\ engine_pc = "select"
    /\ failed # <<>>
    /\ notifier_opt = [id |-> 2]
    /\ is_subscribed

\* C26: while the engine runs, each message accepted by send_message is either
\* in the outbound queue, once, or has been handed to one write_all call (a
\* write that succeeded, failed, is under way, or was cut short by an abort),
\* never both and never twice; nothing else was handed to a writer.
Count(q, x) == Cardinality({i \in 1..Len(q) : q[i] = x})
HandedCount(m) ==
    Cardinality({j \in 1..Len(writes) : writes[j].bytes = take_bytes(m)})
        + Count(failed, m) + Count(InFlightOut, m) + Count(abandoned, m)

C26_OutboundConservation ==
    Running =>
        /\ \A i \in 1..Len(sent) :
              Count(send_queue, sent[i]) + HandedCount(sent[i]) = 1
        /\ Len(send_queue) + Len(writes) + Len(failed) + Len(InFlightOut)
              + Len(abandoned) = Len(sent)

\* Three messages were sent: one was written, one failed, and the third is
\* still queued while the engine runs.
C26_Witness ==
    /\ Running
    /\ Len(sent) = 3
    /\ Len(writes) = 1
    /\ Len(failed) = 1
    /\ send_queue = <<sent[3]>>

\* C27: is_subscribed() returns true only while the engine loop is running:
\* not on a handle stop_engine has stopped, and not once the loop has
\* terminated on stream-ended.
C27_NoStaleSubscription ==
    is_subscribed => (Running /\ engine_pc # "exited")

====
